---- MODULE Spec2Model ----
(***************************************************************************)
(* Review orchestration of the code-review assistant: webhook intake       *)
(* (routes/webhooks.ts), the explicit review request (POST /api/reviews),  *)
(* createAndRunReview / processReview (services/review.service.ts) and the *)
(* rows of the reviews, issues and webhook_events tables.                  *)
(*                                                                         *)
(* Every caller (a webhook delivery or an explicit request) is one HTTP    *)
(* request; the review a caller inserts gets the caller's number as its    *)
(* id (a fresh uuid in the code).  Each await of the code is one action.   *)
(***************************************************************************)
EXTENDS Integers, Sequences, FiniteSets, TLC

\* ------------------------------------------------------------------ bounds
NumCallers == 2

Callers == 1..NumCallers

\* ------------------------------------------------------------ input sets
\* Head commits the pull request takes at the source-control collaborator.
Shas == <<"abc123", "def456">>

PrNumbers == {42}

Events == {"pull_request", "ping", "push"}

Actions == {"opened", "synchronize", "reopened", "closed"}

GitHubIds == {"g1", "g2", "g3"}

FullNames == {"o/r1", "o/r2", "o/zz"}

\* Lists of findings the analysis returns (after its own filtering).
AiResults == {<< >>, <<"critical">>, <<"warning", "info">>}

\* ------------------------------------------------------- repositories table
Repositories ==
  { [id |-> "r1", githubId |-> "g1", fullName |-> "o/r1", userId |-> "u1", autoReview |-> TRUE],
    [id |-> "r2", githubId |-> "g2", fullName |-> "o/r2", userId |-> "u2", autoReview |-> FALSE] }

NoRepo == [id |-> "null", githubId |-> "null", fullName |-> "null", userId |-> "null", autoReview |-> FALSE]

findRepositoryByGitHubId(g) ==
  IF \E r \in Repositories : r.githubId = g
  THEN CHOOSE r \in Repositories : r.githubId = g
  ELSE NoRepo

findRepositoryByFullName(n) ==
  IF \E r \in Repositories : r.fullName = n
  THEN CHOOSE r \in Repositories : r.fullName = n
  ELSE NoRepo

\* The authenticated user of explicit requests.
RequestUser == "u1"

\* ------------------------------------------------------ webhook signature
\* A header value is a string, modelled as a sequence of symbols; the empty
\* sequence is the missing header (undefined, falsy).
Digest(body) == <<"sha256=", body.action, body.repo>>

SignatureHeaders(body) ==
  { << >>,                                  \* missing
    Digest(body),                           \* correct
    <<"sha256=", body.action, "zz">>,       \* wrong, same length
    <<"sha256=", "zz">>,                    \* wrong, shorter
    Digest(body) \o <<"zz">> }              \* wrong, longer

\* crypto.timingSafeEqual: throws a RangeError when the lengths differ.
timingSafeEqual(a, b) ==
  IF Len(a) # Len(b) THEN "RangeError"
  ELSE IF a = b THEN "true" ELSE "false"

verifyWebhookSignature(secretSet, body, signature) ==
  IF ~secretSet \/ signature = << >> THEN "false"
  ELSE timingSafeEqual(Digest(body), signature)

\* errorHandler: an AppError answers with its status code, anything else 500.
ErrorStatus(err) ==
  CASE err = "InvalidSignature" -> 401
    [] err = "NotFoundError"    -> 404
    [] err = "ForbiddenError"   -> 403
    [] OTHER                    -> 500

QualifyingActions == {"opened", "synchronize", "reopened"}

\* ------------------------------------------------------------------- state
VARIABLES
  webhookSecret,  \* config.github.webhookSecret is set
  hpc,            \* position of each caller's request handler
  loc,            \* the handler's locals while it is running
  resp,           \* HTTP status sent to the caller, 0 while none
  events,         \* webhook_events rows, in created_at order
  reviews,        \* reviews rows by id
  issues,         \* issues rows by review id, in insertion order
  rpc,            \* position of the processReview task of each review id
  rloc,           \* the task's locals
  prHead,         \* head commit of the pull request at the collaborator
  prCache,        \* cache entry github:pr:<owner>:<repo>:<number>
  filesCache,     \* cache entry github:pr-files:<owner>:<repo>:<number>
  errorLog,       \* callers whose review trigger wrote a logger.error line
  inbox,          \* the HTTP request the event loop is dispatching
  findings,       \* issues of the AI response the run is working on
  threshold,      \* settings.severityThreshold of the run
  tx,             \* uncommitted writes of the run's transaction
  settings,       \* settings rows, in insertion order
  lastOp,         \* the last settings call and what it returned
  request,        \* two CodeAnalysisRequests
  cacheKey,       \* the cacheKey analyzeCode computed for each of them
  redisEnabled,   \* let redisEnabled
  redisClient,    \* let redisClient: "client", or null ("unset", or "nulled" by a failed connect)
  redisUp,        \* the Redis server answers
  booted,         \* connectRedis has run
  redisData,      \* entries held by the Redis server
  memoryCache,    \* const memoryCache
  now,            \* Date.now(), in seconds
  cacheOut,       \* the last cache call and its outcome
  an,             \* the analyzeCode call in progress
  work            \* the files, settings and AI response of the run of one review

orchVars == <<webhookSecret, hpc, loc, resp, events, reviews, issues, rpc, rloc,
              prHead, prCache, filesCache, errorLog, inbox>>

persistVars == <<findings, threshold, tx>>

settingsVars == <<settings, lastOp>>

keyVars == <<request, cacheKey>>

cacheVars == <<redisEnabled, redisClient, redisUp, booted, redisData, memoryCache,
               now, cacheOut, an>>

analysisVars == <<work>>

\* What the orchestration of reviews leaves alone.
aux == <<persistVars, settingsVars, keyVars, cacheVars, analysisVars>>

vars == <<orchVars, aux>>

NoLoc == [kind |-> "none", repo |-> "none", number |-> 0, sha |-> "none", out |-> "none", rid |-> 0]

\* filesSha: the commit whose changed files the task has fetched.
NoRLoc == [result |-> << >>, summary |-> "none", err |-> "none", filesSha |-> "none"]

Statuses == {"pending", "in_progress", "completed", "failed"}

Terminal == {"completed", "failed"}

NoFilesSummary == "No analyzable files in this pull request"

\* ------------------------------------------------- issues of an analysis
\* CHECK (severity IN ('critical', 'warning', 'info'))
Severities == {"critical", "warning", "info"}

\* The transaction of processReview: its state and the rows it has written
\* and not yet committed.
NoTx == [state |-> "none", issues |-> << >>, update |-> << >>]

PersistIdle == findings = << >> /\ threshold = "info" /\ tx = NoTx

\* ------------------------------------------------------ review settings
\* The keys of ReviewSettings but customRules, in the order of the object
\* literal.
SettingKeys ==
  <<"enabledCategories", "severityThreshold", "ignoredFiles", "ignoredPatterns",
    "languageSettings">>

\* A settings object: a key it does not have is "absent".
SettingValues ==
  [enabledCategories |-> {"all", "security"},
   severityThreshold |-> Severities,
   ignoredFiles |-> {"lockfiles", "lockfiles,b.ts"},
   ignoredPatterns |-> {"tests", "tests,glob"},
   languageSettings |-> {"profiles", "profiles,python-off"}]

EmptyBlob ==
  [enabledCategories |-> "absent", severityThreshold |-> "absent", ignoredFiles |-> "absent",
   ignoredPatterns |-> "absent", languageSettings |-> "absent"]

DEFAULT_REVIEW_SETTINGS ==
  [enabledCategories |-> "all", severityThreshold |-> "info", ignoredFiles |-> "lockfiles",
   ignoredPatterns |-> "tests", languageSettings |-> "profiles"]

NoOp == [op |-> "none", user |-> "null", repo |-> "null", partial |-> EmptyBlob, result |-> EmptyBlob]

SettingsIdle == settings = << >> /\ lastOp = NoOp

\* ------------------------------------------------------ analysis requests
NoAnalysisRequest == [files |-> << >>, settings |-> DEFAULT_REVIEW_SETTINGS]

KeyIdle == request = [i \in 1..2 |-> NoAnalysisRequest] /\ cacheKey = [i \in 1..2 |-> << >>]

\* ------------------------------------------------------ analysis cache key
\* content.charCodeAt(i), for the texts the requests are made of.
CharCodes(text) ==
  CASE text = "a.ts" -> <<97, 46, 116, 115>>
    [] text = "b.ts" -> <<98, 46, 116, 115>>
    [] text = "+x" -> <<43, 120>>
    [] text = "-y" -> <<45, 121>>
    [] text = "Aa" -> <<65, 97>>
    [] text = "BB" -> <<66, 66>>

\* A 32-bit hash is kept as its two 16-bit halves <<high, low>>.
Word == 65536

\* hash = ((hash << 5) - hash) + char; hash = hash & hash
HashStep(h, char) ==
  LET lo == h[2] * 31 + char
      hi == h[1] * 31 + (lo \div Word)
  IN <<hi % Word, lo % Word>>

RECURSIVE HashLoop(_, _)
HashLoop(h, content) ==
  IF content = << >> THEN h
  ELSE HashLoop(HashStep(h, Head(content)), Tail(content))

\* Math.abs of the signed 32-bit value.
MathAbs(h) ==
  IF h[1] < Word \div 2 THEN h
  ELSE IF h[2] = 0 THEN <<(Word - h[1]) % Word, 0>>
  ELSE <<Word - 1 - h[1], Word - h[2]>>

Base36 ==
  <<"0", "1", "2", "3", "4", "5", "6", "7", "8", "9", "a", "b", "c", "d", "e", "f",
    "g", "h", "i", "j", "k", "l", "m", "n", "o", "p", "q", "r", "s", "t", "u", "v",
    "w", "x", "y", "z">>

\* Number.prototype.toString(36)
RECURSIVE ToString36(_)
ToString36(h) ==
  LET t == (h[1] % 36) * Word + h[2]
      q == <<h[1] \div 36, t \div 36>>
      d == <<Base36[(t % 36) + 1]>>
  IN IF q = <<0, 0>> THEN d ELSE ToString36(q) \o d

\* Array.prototype.join
RECURSIVE JoinSeq(_, _)
JoinSeq(parts, sep) ==
  IF parts = << >> THEN << >>
  ELSE IF Len(parts) = 1 THEN parts[1]
  ELSE parts[1] \o <<sep>> \o JoinSeq(Tail(parts), sep)

hashFiles(files) ==
  LET content == JoinSeq([i \in DOMAIN files |->
                            CharCodes(files[i].filename) \o <<58>> \o CharCodes(files[i].patch)],
                         124)
  IN ToString36(MathAbs(HashLoop(<<0, 0>>, content)))

\* JSON.stringify of a settings object: its keys in insertion order.
RECURSIVE StringifyKeys(_, _)
StringifyKeys(obj, keys) ==
  IF keys = << >> THEN << >>
  ELSE LET k == Head(keys)
           rest == StringifyKeys(obj, Tail(keys))
       IN IF obj[k] = "absent" THEN rest
          ELSE IF rest = << >> THEN <<k, obj[k]>>
          ELSE <<k, obj[k], ",">> \o rest

JSONstringify(obj) == <<"{">> \o StringifyKeys(obj, SettingKeys) \o <<"}">>

\* The file names a value of ignoredFiles lists.
IgnoredFiles(v) ==
  IF v = "lockfiles,b.ts" THEN {"package-lock.json", "b.ts"} ELSE {"package-lock.json"}

\* filename.substring(filename.lastIndexOf('.')), for the file names used.
Extension(filename) ==
  CASE filename \in {"a.ts", "b.ts", "a.test.ts"} -> ".ts"
    [] filename = "b.py" -> ".py"
    [] filename = "Main.java" -> ".java"
    [] filename = "package-lock.json" -> ".json"
    [] filename = "logo.png" -> ".png"
    [] filename = "notes.md" -> ".md"

\* Four of the entries of LANGUAGE_MAP.
LANGUAGE_MAP ==
  [ext \in {".js", ".ts", ".py", ".java"} |->
     CASE ext = ".js" -> "javascript"
       [] ext = ".ts" -> "typescript"
       [] ext = ".py" -> "python"
       [] ext = ".java" -> "java"]

detectLanguage(filename) ==
  IF Extension(filename) \in DOMAIN LANGUAGE_MAP THEN LANGUAGE_MAP[Extension(filename)]
  ELSE "unknown"

\* patch.length; "big" stands for a patch of 120000 characters.
PatchLength(patch) == IF patch = "big" THEN 120000 ELSE Len(CharCodes(patch))

\* The regular expressions a value of ignoredPatterns lists, in order.
IgnoredPatterns(v) ==
  IF v = "tests,glob" THEN <<"\\.test\\.", "*.lock">> ELSE <<"\\.test\\.">>

\* new RegExp(pattern) throws a SyntaxError: nothing to repeat.
InvalidRegExp(pattern) == pattern = "*.lock"

\* new RegExp(pattern).test(filename)
RegExpTest(pattern, filename) == pattern = "\\.test\\." /\ filename = "a.test.ts"

\* The profiles a value of languageSettings holds, by language.
LanguageSettings(v) ==
  [lang \in {"javascript", "typescript", "python", "java"} |->
     [enabled |-> ~(v = "profiles,python-off" /\ lang = "python"),
      maxFileSize |-> IF lang = "java" THEN 150000 ELSE 100000]]

\* The loop over settings.ignoredPatterns for one file name.
RECURSIVE PatternVerdict(_, _)
PatternVerdict(patterns, filename) ==
  IF patterns = << >> THEN "keep"
  ELSE IF InvalidRegExp(Head(patterns)) THEN "throw"
  ELSE IF RegExpTest(Head(patterns), filename) THEN "drop"
  ELSE PatternVerdict(Tail(patterns), filename)
\* The callback with the check of the file name alone.
FileVerdictByNameOnly(file, s) ==
  IF file.filename \in IgnoredFiles(s.ignoredFiles) THEN "drop" ELSE "keep"

\* The callback of files.filter for one file: it returns true ("keep") or
\* false ("drop"), or new RegExp throws.
FileVerdict(file, s) ==
  LET langs == LanguageSettings(s.languageSettings)
      langSettings == file.language \in DOMAIN langs
      maxSize == IF langSettings THEN langs[file.language].maxFileSize ELSE 100000
  IN IF file.filename \in IgnoredFiles(s.ignoredFiles) THEN "drop"
     ELSE IF PatternVerdict(IgnoredPatterns(s.ignoredPatterns), file.filename) # "keep"
          THEN PatternVerdict(IgnoredPatterns(s.ignoredPatterns), file.filename)
     ELSE IF langSettings /\ ~langs[file.language].enabled THEN "drop"
     ELSE IF PatchLength(file.patch) > maxSize THEN "drop"
     ELSE "keep"

\* filterFiles throws when the callback throws for one of the files.
filterFilesThrows(files, s) == \E i \in DOMAIN files : FileVerdict(files[i], s) = "throw"

filterFiles(files, s) ==
  LET Kept(f) == FileVerdict(f, s) = "keep"
  IN SelectSeq(files, Kept)

generateKey(parts) == JoinSeq(parts, ":")
\* A key made of the files alone.
analysisCacheKeyOfFilesOnly(req) ==
  generateKey(<< <<"analysis">>, hashFiles(filterFiles(req.files, req.settings)) >>)

\* cache.generateKey('analysis', hashFiles(filteredFiles), JSON.stringify(request.settings))
analysisCacheKey(req) ==
  generateKey(<< <<"analysis">>,
                 hashFiles(filterFiles(req.files, req.settings)),
                 JSONstringify(req.settings) >>)

\* ---------------------------------------------------------------- cache
FileA == [filename |-> "a.ts", patch |-> "+x", language |-> "typescript"]

FileB == [filename |-> "b.ts", patch |-> "-y", language |-> "typescript"]

\* Two versions of a.ts whose patches differ.
FileAa == [filename |-> "a.ts", patch |-> "Aa", language |-> "typescript"]

FileBB == [filename |-> "a.ts", patch |-> "BB", language |-> "typescript"]

\* The keys the cache is used with: an analysis and a pull request.
AnalysisKey == analysisCacheKey([files |-> <<FileA>>, settings |-> DEFAULT_REVIEW_SETTINGS])

PrKey == generateKey(<< <<"github">>, <<"pr">>, <<"o">>, <<"r1">>, <<"42">> >>)

CacheKeys == {AnalysisKey, PrKey}

\* A store entry; expiry 0 is the null of an entry set without a TTL.
NoEntry == [present |-> FALSE, value |-> << >>, expiry |-> 0]

NoCacheOut ==
  [op |-> "none", key |-> << >>, value |-> << >>, until |-> 0,
   down |-> FALSE, ret |-> << >>, threw |-> FALSE]

NoAnalysis ==
  [pc |-> "idle", findings |-> << >>, result |-> << >>, error |-> "none", degraded |-> FALSE]

\* The run of one review from its fetched files to its analysis result.
NoWork ==
  [files |-> << >>, settings |-> DEFAULT_REVIEW_SETTINGS, analysisFiles |-> << >>,
   filtered |-> << >>, aiCalled |-> FALSE, aiInput |-> << >>, keyInput |-> << >>,
   response |-> [kind |-> "none", issues |-> << >>]]

AnalysisIdle == work = NoWork

CacheIdle ==
  /\ redisEnabled = FALSE
  /\ redisClient = "unset"
  /\ redisUp = FALSE
  /\ booted = FALSE
  /\ redisData = [k \in CacheKeys |-> NoEntry]
  /\ memoryCache = [k \in CacheKeys |-> NoEntry]
  /\ now = 1
  /\ cacheOut = NoCacheOut
  /\ an = NoAnalysis

\* ------------------------------------------------------- reviews table
TripleOf(row) == <<row.repository_id, row.pr_number, row.head_sha>>

\* SELECT * FROM reviews WHERE repository_id = $1 AND pr_number = $2 AND head_sha = $3
SelectByTriple(rows, t) == {id \in DOMAIN rows : TripleOf(rows[id]) = t}

NewReview(repoId, number, sha) ==
  [repository_id |-> repoId, pr_number |-> number, head_sha |-> sha,
   status |-> "pending", summary |-> "none", total_issues |-> 0,
   critical_count |-> 0, warning_count |-> 0, info_count |-> 0,
   processing_time_set |-> FALSE, error_message |-> "none",
   completed_at_set |-> FALSE]
\* The reviews table without its UNIQUE constraint.
NoUniqueConstraint(rows, row) == FALSE

\* UNIQUE(repository_id, pr_number, head_sha): the insert is rejected when a
\* row with the same triple exists.
UniqueViolation(rows, row) == SelectByTriple(rows, TripleOf(row)) # {}

InsertRow(rows, id, row) ==
  [x \in DOMAIN rows \cup {id} |-> IF x = id THEN row ELSE rows[x]]

\* UPDATE reviews SET ... WHERE id = $1: no row, no effect and no error.
UpdateRow(rows, id, row) ==
  IF id \in DOMAIN rows THEN [rows EXCEPT ![id] = row] ELSE rows

DeleteRow(rows, id) == [x \in DOMAIN rows \ {id} |-> rows[x]]

\* ------------------------------------------------------- webhook intake
Bodies == [action : Actions, number : PrNumbers, repo : GitHubIds]

\* Deliveries whose fields differ only where the handler never looks are
\* taken once: the action matters for pull_request events only, the
\* repository for qualifying actions only, and the badly signed deliveries
\* are the ones that would otherwise start a review.
Representative(e, b, s) ==
  /\ e # "pull_request" => b.action = "opened" /\ b.repo = "g1"
  /\ b.action \notin QualifyingActions => b.repo = "g1"
  /\ s # Digest(b) => e = "pull_request" /\ b.action = "opened" /\ b.repo = "g1"

WebhookRequests ==
  UNION { { [caller |-> 0, kind |-> "webhook", event |-> e, body |-> b,
             signature |-> s, name |-> "none"] :
              e \in Events, s \in SignatureHeaders(b) } : b \in Bodies }

DeliveredRequests ==
  {r \in WebhookRequests : Representative(r.event, r.body, r.signature)}

ReviewRequests ==
  { [caller |-> 0, kind |-> "request", event |-> "none",
     body |-> [action |-> "none", number |-> n, repo |-> "none"],
     signature |-> << >>, name |-> f] : n \in PrNumbers, f \in FullNames }

NoRequest ==
  [caller |-> 0, kind |-> "none", event |-> "none",
   body |-> [action |-> "none", number |-> 0, repo |-> "none"],
   signature |-> << >>, name |-> "none"]

Init ==
  /\ webhookSecret \in BOOLEAN
  /\ hpc = [c \in Callers |-> "idle"]
  /\ loc = [c \in Callers |-> NoLoc]
  /\ resp = [c \in Callers |-> 0]
  /\ events = << >>
  /\ reviews = << >>
  /\ issues = [c \in Callers |-> << >>]
  /\ rpc = [c \in Callers |-> "none"]
  /\ rloc = [c \in Callers |-> NoRLoc]
  /\ prHead = Shas[1]
  /\ prCache = "none"
  /\ filesCache = "none"
  /\ errorLog = {}
  /\ inbox = NoRequest
  /\ PersistIdle
  /\ SettingsIdle
  /\ KeyIdle
  /\ CacheIdle
  /\ AnalysisIdle

\* The event loop takes one inbound HTTP request; its handler then runs up to
\* its first suspension before any other callback does.
Receive(c) ==
  /\ hpc[c] = "idle"
  /\ inbox = NoRequest
  /\ \E r \in DeliveredRequests \cup ReviewRequests :
       inbox' = [r EXCEPT !.caller = c]
  /\ hpc' = [hpc EXCEPT ![c] = "received"]
  /\ UNCHANGED <<aux, webhookSecret, loc, resp, events, reviews, issues, rpc, rloc, prHead, prCache, filesCache, errorLog>>

Finish(c, status) ==
  /\ resp' = [resp EXCEPT ![c] = status]
  /\ hpc' = [hpc EXCEPT ![c] = "done"]
  /\ loc' = [loc EXCEPT ![c] = NoLoc]

\* router.post('/github'): the signature check fails; next(error).
HandleRejected ==
  /\ inbox.kind = "webhook"
  /\ LET v == verifyWebhookSignature(webhookSecret, inbox.body, inbox.signature) IN
       /\ v # "true"
       /\ Finish(inbox.caller, ErrorStatus(IF v = "false" THEN "InvalidSignature" ELSE v))
  /\ inbox' = NoRequest
  /\ UNCHANGED <<aux, webhookSecret, events, reviews, issues, rpc, rloc, prHead, prCache, filesCache, errorLog>>
\* The gates without the auto-review check.
QualifiesIgnoringAutoReview(event, body) ==
  /\ event = "pull_request"
  /\ body.action \in QualifyingActions
  /\ findRepositoryByGitHubId(body.repo) # NoRepo

\* The switch on the event type and the early returns of handlePullRequestEvent.
Qualifies(event, body) ==
  /\ event = "pull_request"
  /\ body.action \in QualifyingActions
  /\ findRepositoryByGitHubId(body.repo) # NoRepo
  /\ findRepositoryByGitHubId(body.repo).autoReview

HandleIgnored ==
  /\ inbox.kind = "webhook"
  /\ verifyWebhookSignature(webhookSecret, inbox.body, inbox.signature) = "true"
  /\ ~Qualifies(inbox.event, inbox.body)
  /\ Finish(inbox.caller, 200)
  /\ inbox' = NoRequest
  /\ UNCHANGED <<aux, webhookSecret, events, reviews, issues, rpc, rloc, prHead, prCache, filesCache, errorLog>>

\* handlePullRequestEvent up to the call of createAndRunReview: the gates
\* pass and the webhook_events row is inserted.  Of the row's payload only
\* the PR number, which the later UPDATE selects on, is kept.
HandlePullRequestEvent ==
  /\ inbox.kind = "webhook"
  /\ verifyWebhookSignature(webhookSecret, inbox.body, inbox.signature) = "true"
  /\ Qualifies(inbox.event, inbox.body)
  /\ LET repo == findRepositoryByGitHubId(inbox.body.repo) IN
       /\ events' = Append(events, [id |-> inbox.caller, repository_id |-> repo.id,
                                    event_type |-> "pull_request",
                                    number |-> inbox.body.number,
                                    processed |-> FALSE])
       /\ loc' = [loc EXCEPT ![inbox.caller] =
                    [NoLoc EXCEPT !.kind = "webhook", !.repo = repo.id,
                                  !.number = inbox.body.number]]
  /\ hpc' = [hpc EXCEPT ![inbox.caller] = "start_pr"]
  /\ inbox' = NoRequest
  /\ UNCHANGED <<aux, webhookSecret, resp, reviews, issues, rpc, rloc, prHead, prCache, filesCache, errorLog>>

\* router.post('/') of the reviews router up to the call of createAndRunReview.
RequestRejected ==
  /\ inbox.kind = "request"
  /\ LET repo == findRepositoryByFullName(inbox.name) IN
       /\ repo = NoRepo \/ repo.userId # RequestUser
       /\ Finish(inbox.caller, ErrorStatus(IF repo = NoRepo THEN "NotFoundError" ELSE "ForbiddenError"))
  /\ inbox' = NoRequest
  /\ UNCHANGED <<aux, webhookSecret, events, reviews, issues, rpc, rloc, prHead, prCache, filesCache, errorLog>>

RequestReview ==
  /\ inbox.kind = "request"
  /\ LET repo == findRepositoryByFullName(inbox.name) IN
       /\ repo # NoRepo /\ repo.userId = RequestUser
       /\ loc' = [loc EXCEPT ![inbox.caller] =
                    [NoLoc EXCEPT !.kind = "request", !.repo = repo.id,
                                  !.number = inbox.body.number]]
  /\ hpc' = [hpc EXCEPT ![inbox.caller] = "start_pr"]
  /\ inbox' = NoRequest
  /\ UNCHANGED <<aux, webhookSecret, resp, events, reviews, issues, rpc, rloc, prHead, prCache, filesCache, errorLog>>

\* No handler is in its synchronous prologue: other callbacks may run.
LoopFree == inbox = NoRequest

\* ---------------------------------------------------- createAndRunReview
\* getUserAccessToken and github.getPullRequest: the cached PR when there is
\* one, else the collaborator's current PR, which is then cached.
StartGetPR(c) ==
  /\ LoopFree
  /\ hpc[c] = "start_pr"
  /\ \/ \E e \in {"NotFoundError", "Error"} :
          /\ loc' = [loc EXCEPT ![c].out = e]
          /\ hpc' = [hpc EXCEPT ![c] = "after_start"]
          /\ UNCHANGED prCache
     \/ LET sha == IF prCache # "none" THEN prCache ELSE prHead IN
          /\ loc' = [loc EXCEPT ![c].sha = sha]
          /\ prCache' = sha
          /\ hpc' = [hpc EXCEPT ![c] = "start_select"]
  /\ UNCHANGED <<aux, webhookSecret, resp, events, reviews, issues, rpc, rloc, prHead, filesCache, errorLog, inbox>>
\* An existing failed review is reset and run again.
StartFoundRetryFailed(c) ==
  LET found == SelectByTriple(reviews, <<loc[c].repo, loc[c].number, loc[c].sha>>)
      id == CHOOSE x \in found : TRUE IN
  /\ found # {}
  /\ loc' = [loc EXCEPT ![c].out = "ok", ![c].rid = id]
  /\ hpc' = [hpc EXCEPT ![c] = "after_start"]
  /\ IF reviews[id].status = "failed" /\ rpc[id] = "done"
     THEN /\ reviews' = [reviews EXCEPT ![id].status = "pending"]
          /\ rpc' = [rpc EXCEPT ![id] = "in_progress"]
     ELSE UNCHANGED <<reviews, rpc>>
  /\ UNCHANGED <<aux, webhookSecret, resp, events, issues, rloc, prHead, prCache, filesCache, errorLog, inbox>>

\* An existing review is handed to processReview once more.
StartFoundRunsAgain(c) ==
  LET found == SelectByTriple(reviews, <<loc[c].repo, loc[c].number, loc[c].sha>>)
      id == CHOOSE x \in found : TRUE IN
  /\ found # {}
  /\ loc' = [loc EXCEPT ![c].out = "ok", ![c].rid = id]
  /\ hpc' = [hpc EXCEPT ![c] = "after_start"]
  /\ rpc' = [rpc EXCEPT ![id] = "in_progress"]
  /\ UNCHANGED <<aux, webhookSecret, resp, events, reviews, issues, rloc, prHead, prCache, filesCache, errorLog, inbox>>

\* The SELECT for an existing review of this head commit.
StartFound(c) ==
  LET found == SelectByTriple(reviews, <<loc[c].repo, loc[c].number, loc[c].sha>>) IN
  /\ found # {}
  /\ loc' = [loc EXCEPT ![c].out = "ok", ![c].rid = CHOOSE id \in found : TRUE]
  /\ hpc' = [hpc EXCEPT ![c] = "after_start"]
  /\ UNCHANGED <<aux, webhookSecret, resp, events, reviews, issues, rpc, rloc, prHead, prCache, filesCache, errorLog, inbox>>

StartNotFound(c) ==
  /\ SelectByTriple(reviews, <<loc[c].repo, loc[c].number, loc[c].sha>>) = {}
  /\ hpc' = [hpc EXCEPT ![c] = "start_insert"]
  /\ UNCHANGED <<aux, webhookSecret, loc, resp, events, reviews, issues, rpc, rloc, prHead, prCache, filesCache, errorLog, inbox>>

StartSelect(c) ==
  /\ LoopFree
  /\ hpc[c] = "start_select"
  /\ (StartFound(c) \/ StartNotFound(c))

\* The INSERT of the pending row, then the un-awaited call of processReview,
\* which runs up to its first await.
StartInsert(c) ==
  /\ LoopFree
  /\ hpc[c] = "start_insert"
  /\ LET row == NewReview(loc[c].repo, loc[c].number, loc[c].sha) IN
       IF UniqueViolation(reviews, row)
       THEN /\ loc' = [loc EXCEPT ![c].out = "DatabaseError"]
            /\ UNCHANGED <<reviews, rpc>>
       ELSE /\ reviews' = InsertRow(reviews, c, row)
            /\ rpc' = [rpc EXCEPT ![c] = "in_progress"]
            /\ loc' = [loc EXCEPT ![c].out = "ok", ![c].rid = c]
  /\ hpc' = [hpc EXCEPT ![c] = "after_start"]
  /\ UNCHANGED <<aux, webhookSecret, resp, events, issues, rloc, prHead, prCache, filesCache, errorLog, inbox>>

\* ------------------------------------------ after createAndRunReview returns
\* UPDATE webhook_events ... ORDER BY created_at DESC LIMIT 1: PostgreSQL has
\* no ORDER BY or LIMIT in UPDATE, the statement is rejected and nothing is
\* marked; the catch of the trigger logs it.
MarkProcessed(rows, repoId, number) == [ok |-> FALSE, rows |-> rows]

HandleMarkProcessed(d) ==
  /\ LoopFree
  /\ hpc[d] = "after_start" /\ loc[d].kind = "webhook" /\ loc[d].out = "ok"
  /\ LET m == MarkProcessed(events, loc[d].repo, loc[d].number) IN
       /\ events' = m.rows
       /\ errorLog' = IF m.ok THEN errorLog ELSE errorLog \cup {d}
  /\ hpc' = [hpc EXCEPT ![d] = "ack"]
  /\ UNCHANGED <<aux, webhookSecret, loc, resp, reviews, issues, rpc, rloc, prHead, prCache, filesCache, inbox>>
\* The trigger's failure is passed to next(error).
HandleTriggerFailedRethrow(d) ==
  /\ LoopFree
  /\ hpc[d] = "after_start" /\ loc[d].kind = "webhook" /\ loc[d].out # "ok"
  /\ Finish(d, ErrorStatus(loc[d].out))
  /\ UNCHANGED <<aux, webhookSecret, events, reviews, issues, rpc, rloc, prHead, prCache, filesCache, errorLog, inbox>>

\* catch (error) of the trigger: logger.error only.
HandleTriggerFailed(d) ==
  /\ LoopFree
  /\ hpc[d] = "after_start" /\ loc[d].kind = "webhook" /\ loc[d].out # "ok"
  /\ errorLog' = errorLog \cup {d}
  /\ hpc' = [hpc EXCEPT ![d] = "ack"]
  /\ UNCHANGED <<aux, webhookSecret, loc, resp, events, reviews, issues, rpc, rloc, prHead, prCache, filesCache, inbox>>
\* The response is sent once the analysis of the returned review has ended.
HandleAckAfterRun(d) ==
  /\ LoopFree
  /\ hpc[d] = "ack"
  /\ loc[d].out = "ok" => rpc[loc[d].rid] = "done"
  /\ Finish(d, 200)
  /\ UNCHANGED <<aux, webhookSecret, events, reviews, issues, rpc, rloc, prHead, prCache, filesCache, errorLog, inbox>>

\* res.json({ success: true, received: true })
HandleAck(d) ==
  /\ LoopFree
  /\ hpc[d] = "ack"
  /\ Finish(d, 200)
  /\ UNCHANGED <<aux, webhookSecret, events, reviews, issues, rpc, rloc, prHead, prCache, filesCache, errorLog, inbox>>

\* res.status(201).json(review), or next(error)
RequestRespond(c) ==
  /\ LoopFree
  /\ hpc[c] = "after_start" /\ loc[c].kind = "request"
  /\ Finish(c, IF loc[c].out = "ok" THEN 201 ELSE ErrorStatus(loc[c].out))
  /\ UNCHANGED <<aux, webhookSecret, events, reviews, issues, rpc, rloc, prHead, prCache, filesCache, errorLog, inbox>>

\* ---------------------------------------------------------- processReview
Throw(r, e) ==
  /\ rloc' = [rloc EXCEPT ![r].err = e]
  /\ rpc' = [rpc EXCEPT ![r] = "catch"]

\* UPDATE reviews SET status = 'in_progress' WHERE id = $1
RunUpdateInProgress(r) ==
  /\ LoopFree
  /\ rpc[r] = "in_progress"
  /\ \/ /\ reviews' = UpdateRow(reviews, r, [reviews[r] EXCEPT !.status = "in_progress"])
        /\ rpc' = [rpc EXCEPT ![r] = "fetch"]
        /\ UNCHANGED rloc
     \/ /\ Throw(r, "DatabaseError")
        /\ UNCHANGED reviews
  /\ UNCHANGED <<aux, webhookSecret, hpc, loc, resp, events, issues, prHead, prCache, filesCache, errorLog, inbox>>

\* Token, PR and file fetch (each the cached entry when there is one, else
\* what the collaborator has for the PR number now, which is then cached),
\* the review's repository and settings, and the selection of the files that
\* have a patch and are not removed.
RunFetch(r) ==
  /\ LoopFree
  /\ rpc[r] = "fetch"
  /\ \/ /\ Throw(r, "GitHubError")
        /\ UNCHANGED <<prCache, filesCache>>
     \/ /\ prCache' = IF prCache # "none" THEN prCache ELSE prHead
        /\ filesCache' = IF filesCache # "none" THEN filesCache ELSE prHead
        /\ IF r \notin DOMAIN reviews
           THEN Throw(r, "TypeError")      \* (await findReviewById(reviewId))! is null
           ELSE \/ Throw(r, "DatabaseError")
                \/ /\ \E next \in {"no_files", "analyze"} : rpc' = [rpc EXCEPT ![r] = next]
                   /\ rloc' = [rloc EXCEPT ![r].filesSha = filesCache']
  /\ UNCHANGED <<aux, webhookSecret, hpc, loc, resp, events, reviews, issues, prHead, errorLog, inbox>>

\* analysisFiles.length === 0: the short-circuit UPDATE.
RunNoFiles(r) ==
  /\ LoopFree
  /\ rpc[r] = "no_files"
  /\ \/ /\ reviews' = UpdateRow(reviews, r,
                        [reviews[r] EXCEPT !.status = "completed",
                                           !.summary = NoFilesSummary,
                                           !.completed_at_set = TRUE])
        /\ rpc' = [rpc EXCEPT ![r] = "done"]
        /\ UNCHANGED rloc
     \/ /\ Throw(r, "DatabaseError")
        /\ UNCHANGED reviews
  /\ UNCHANGED <<aux, webhookSecret, hpc, loc, resp, events, issues, prHead, prCache, filesCache, errorLog, inbox>>

\* analyzeCode: a result, or AppError('Failed to analyze code').
RunAnalyze(r) ==
  /\ LoopFree
  /\ rpc[r] = "analyze"
  /\ \/ \E res \in AiResults :
          /\ rloc' = [rloc EXCEPT ![r].result = res, ![r].summary = "ai summary"]
          /\ rpc' = [rpc EXCEPT ![r] = "commit"]
     \/ Throw(r, "Failed to analyze code")
  /\ UNCHANGED <<aux, webhookSecret, hpc, loc, resp, events, reviews, issues, prHead, prCache, filesCache, errorLog, inbox>>

CountSeverity(list, sev) == Cardinality({i \in DOMAIN list : list[i] = sev})

IssueRows(list) == [i \in DOMAIN list |-> [severity |-> list[i], is_resolved |-> FALSE]]

\* The completed row with its info count left out.
CompletedRowWithoutInfo(row, summary, list) ==
  [row EXCEPT !.status = "completed",
              !.summary = summary,
              !.total_issues = Len(list),
              !.critical_count = CountSeverity(list, "critical"),
              !.warning_count = CountSeverity(list, "warning"),
              !.processing_time_set = TRUE,
              !.completed_at_set = TRUE]

CompletedRow(row, summary, list) ==
  [row EXCEPT !.status = "completed",
              !.summary = summary,
              !.total_issues = Len(list),
              !.critical_count = CountSeverity(list, "critical"),
              !.warning_count = CountSeverity(list, "warning"),
              !.info_count = CountSeverity(list, "info"),
              !.processing_time_set = TRUE,
              !.completed_at_set = TRUE]
\* A throw after COMMIT reaches the outer catch.
RunCommitThenThrow(r) ==
  /\ LoopFree
  /\ rpc[r] = "commit"
  /\ \/ /\ r \in DOMAIN reviews \/ rloc[r].result = << >>
        /\ issues' = [issues EXCEPT ![r] = IssueRows(rloc[r].result)]
        /\ reviews' = UpdateRow(reviews, r, CompletedRow(reviews[r], rloc[r].summary, rloc[r].result))
        /\ Throw(r, "Error")
     \/ /\ Throw(r, "DatabaseError")
        /\ UNCHANGED <<reviews, issues>>
  /\ UNCHANGED <<aux, webhookSecret, hpc, loc, resp, events, prHead, prCache, filesCache, errorLog, inbox>>

\* BEGIN; the issue inserts; the UPDATE to completed; COMMIT.  A failure
\* (the foreign key of an issue of a deleted review, or the database) rolls
\* everything back and rethrows.
RunCommit(r) ==
  /\ LoopFree
  /\ rpc[r] = "commit"
  /\ \/ /\ r \in DOMAIN reviews \/ rloc[r].result = << >>
        /\ issues' = [issues EXCEPT ![r] = IssueRows(rloc[r].result)]
        /\ reviews' = UpdateRow(reviews, r, CompletedRow(reviews[r], rloc[r].summary, rloc[r].result))
        /\ rpc' = [rpc EXCEPT ![r] = "done"]
        /\ rloc' = [rloc EXCEPT ![r] = NoRLoc]
     \/ /\ Throw(r, "DatabaseError")
        /\ UNCHANGED <<reviews, issues>>
  /\ UNCHANGED <<aux, webhookSecret, hpc, loc, resp, events, prHead, prCache, filesCache, errorLog, inbox>>

FailedRow(row, e) ==
  [row EXCEPT !.status = "failed", !.error_message = e, !.processing_time_set = TRUE]

\* The outer catch: the UPDATE to failed.  When that UPDATE throws too, the
\* task rejects and the .catch of createAndRunReview logs it.
RunCatch(r) ==
  /\ LoopFree
  /\ rpc[r] = "catch"
  /\ \/ reviews' = UpdateRow(reviews, r, FailedRow(reviews[r], rloc[r].err))
     \/ UNCHANGED reviews
  /\ rpc' = [rpc EXCEPT ![r] = "done"]
  /\ rloc' = [rloc EXCEPT ![r] = NoRLoc]
  /\ UNCHANGED <<aux, webhookSecret, hpc, loc, resp, events, issues, prHead, prCache, filesCache, errorLog, inbox>>

\* ------------------------------------------------- other request handlers
\* The delete without the cascade to the issues.
DeleteReviewNoCascade(r) ==
  /\ LoopFree
  /\ r \in DOMAIN reviews
  /\ reviews' = DeleteRow(reviews, r)
  /\ UNCHANGED <<aux, webhookSecret, hpc, loc, resp, events, issues, rpc, rloc, prHead, prCache, filesCache, errorLog, inbox>>

\* deleteReview: ON DELETE CASCADE removes the issues of the review.
DeleteReview(r) ==
  /\ LoopFree
  /\ r \in DOMAIN reviews
  /\ reviews' = DeleteRow(reviews, r)
  /\ issues' = [issues EXCEPT ![r] = << >>]
  /\ UNCHANGED <<aux, webhookSecret, hpc, loc, resp, events, rpc, rloc, prHead, prCache, filesCache, errorLog, inbox>>

SetResolved(r, i, v) ==
  /\ LoopFree
  /\ i \in DOMAIN issues[r]
  /\ issues[r][i].is_resolved # v
  /\ issues' = [issues EXCEPT ![r][i].is_resolved = v]
  /\ UNCHANGED <<aux, webhookSecret, hpc, loc, resp, events, reviews, rpc, rloc, prHead, prCache, filesCache, errorLog, inbox>>

resolveIssue(r, i) == SetResolved(r, i, TRUE)

unresolveIssue(r, i) == SetResolved(r, i, FALSE)

\* ------------------------------------------------------------ environment
\* A push moves the head of the pull request to the next commit.
PushCommit ==
  /\ LoopFree
  /\ \E k \in 1..(Len(Shas) - 1) : prHead = Shas[k] /\ prHead' = Shas[k + 1]
  /\ UNCHANGED <<aux, webhookSecret, hpc, loc, resp, events, reviews, issues, rpc, rloc, prCache, filesCache, errorLog, inbox>>

\* A PR_DATA entry expires.
CacheExpire ==
  /\ LoopFree
  /\ \/ prCache # "none" /\ prCache' = "none" /\ UNCHANGED filesCache
     \/ filesCache # "none" /\ filesCache' = "none" /\ UNCHANGED prCache
  /\ UNCHANGED <<aux, webhookSecret, hpc, loc, resp, events, reviews, issues, rpc, rloc, prHead, errorLog, inbox>>

\* ---------------------------------------------------------- specification
HandlerStep(c) ==
  \/ Receive(c)
  \/ (inbox.caller = c /\ (HandleRejected \/ HandleIgnored \/ HandlePullRequestEvent
                            \/ RequestRejected \/ RequestReview))
  \/ StartGetPR(c)
  \/ StartSelect(c)
  \/ StartInsert(c)
  \/ HandleMarkProcessed(c)
  \/ HandleTriggerFailed(c)
  \/ HandleAck(c)
  \/ RequestRespond(c)

RunStep(r) ==
  \/ RunUpdateInProgress(r)
  \/ RunFetch(r)
  \/ RunNoFiles(r)
  \/ RunAnalyze(r)
  \/ RunCommit(r)
  \/ RunCatch(r)

Next ==
  \/ \E c \in Callers : HandlerStep(c)
  \/ \E r \in Callers : RunStep(r)
  \/ \E r \in Callers : DeleteReview(r)
  \/ \E r \in Callers : \E i \in DOMAIN issues[r] : resolveIssue(r, i) \/ unresolveIssue(r, i)
  \/ PushCommit
  \/ CacheExpire

Spec == Init /\ [][Next]_vars

\* ================================================ persisting one analysis
MaxFindings == 5

\* The issue lists an AI response can carry, by severity.
FindingsLists == UNION {[1..n -> Severities] : n \in 0..MaxFindings}

severityOrder == <<"critical", "warning", "info">>

\* Array.prototype.indexOf: 0-based, -1 when absent.
indexOf(list, x) ==
  IF \E i \in DOMAIN list : list[i] = x
  THEN (CHOOSE i \in DOMAIN list : list[i] = x /\ \A j \in 1..(i - 1) : list[j] # x) - 1
  ELSE -1
\* The filter with a strict comparison.
filterIssuesBySeverityStrict(issueList, th) ==
  LET thresholdIndex == indexOf(severityOrder, th)
      Keep(sev) == indexOf(severityOrder, sev) < thresholdIndex
  IN SelectSeq(issueList, Keep)

filterIssuesBySeverity(issueList, th) ==
  LET thresholdIndex == indexOf(severityOrder, th)
      Keep(sev) == indexOf(severityOrder, sev) <= thresholdIndex
  IN SelectSeq(issueList, Keep)

\* A review whose run has fetched its files and resolved its settings.
InitPersist ==
  /\ webhookSecret = TRUE
  /\ hpc = [c \in Callers |-> "idle"]
  /\ loc = [c \in Callers |-> NoLoc]
  /\ resp = [c \in Callers |-> 0]
  /\ events = << >>
  /\ reviews = InsertRow(<< >>, 1, [NewReview("r1", 42, Shas[1]) EXCEPT !.status = "in_progress"])
  /\ issues = [c \in Callers |-> << >>]
  /\ rpc = [c \in Callers |-> IF c = 1 THEN "analyze" ELSE "none"]
  /\ rloc = [c \in Callers |-> NoRLoc]
  /\ prHead = Shas[1]
  /\ prCache = Shas[1]
  /\ filesCache = Shas[1]
  /\ errorLog = {}
  /\ inbox = NoRequest
  /\ findings = << >>
  /\ threshold \in Severities
  /\ tx = NoTx
  /\ SettingsIdle
  /\ KeyIdle
  /\ CacheIdle
  /\ AnalysisIdle

\* analyzeCode on a cache miss: the issues of the AI response, filtered by
\* settings.severityThreshold, or AppError('Failed to analyze code').
RunAnalyzeFindings(r) ==
  /\ LoopFree
  /\ rpc[r] = "analyze"
  /\ \/ \E f \in FindingsLists :
          /\ findings' = f
          /\ rloc' = [rloc EXCEPT ![r].result = filterIssuesBySeverity(f, threshold),
                                  ![r].summary = "ai summary"]
          /\ rpc' = [rpc EXCEPT ![r] = "begin"]
     \/ /\ Throw(r, "Failed to analyze code")
        /\ UNCHANGED findings
  /\ UNCHANGED <<webhookSecret, hpc, loc, resp, events, reviews, issues, prHead, prCache, filesCache,
                 errorLog, inbox, threshold, tx, settingsVars, keyVars, analysisVars, cacheVars>>

\* A statement of the transaction throws: on to the ROLLBACK of the catch.
Abort(r) ==
  /\ rloc' = [rloc EXCEPT ![r].err = "DatabaseError"]
  /\ rpc' = [rpc EXCEPT ![r] = "rollback"]

\* getClient and BEGIN.
TxBegin(r) ==
  /\ LoopFree
  /\ rpc[r] = "begin"
  /\ \/ /\ tx' = [state |-> "open", issues |-> << >>, update |-> << >>]
        /\ rpc' = [rpc EXCEPT ![r] = "insert"]
        /\ UNCHANGED rloc
     \/ /\ tx' = [state |-> "open", issues |-> << >>, update |-> << >>]
        /\ Abort(r)
     \/ /\ Throw(r, "DatabaseError")      \* getClient throws, outside the inner try
        /\ UNCHANGED tx
  /\ UNCHANGED <<webhookSecret, hpc, loc, resp, events, reviews, issues, prHead, prCache, filesCache,
                 errorLog, inbox, findings, threshold, settingsVars, keyVars, analysisVars, cacheVars>>
\* The insert sent outside the transaction: the row is visible at once.
TxInsertIssueAutocommit(r) ==
  /\ LoopFree
  /\ rpc[r] = "insert"
  /\ Len(tx.issues) < Len(rloc[r].result)
  /\ \/ /\ tx' = [tx EXCEPT !.issues = Append(@, IssueRows(rloc[r].result)[Len(tx.issues) + 1])]
        /\ issues' = [issues EXCEPT ![r] = Append(@, IssueRows(rloc[r].result)[Len(tx.issues) + 1])]
        /\ UNCHANGED <<rpc, rloc>>
     \/ /\ Abort(r)
        /\ UNCHANGED <<tx, issues>>
  /\ UNCHANGED <<webhookSecret, hpc, loc, resp, events, reviews, prHead, prCache, filesCache,
                 errorLog, inbox, findings, threshold, settingsVars, keyVars, analysisVars, cacheVars>>

\* One turn of the loop over result.issues: the INSERT of the next issue,
\* on the client of the transaction.
TxInsertIssue(r) ==
  /\ LoopFree
  /\ rpc[r] = "insert"
  /\ Len(tx.issues) < Len(rloc[r].result)
  /\ \/ /\ tx' = [tx EXCEPT !.issues = Append(@, IssueRows(rloc[r].result)[Len(tx.issues) + 1])]
        /\ UNCHANGED <<rpc, rloc>>
     \/ /\ Abort(r)
        /\ UNCHANGED tx
  /\ UNCHANGED <<webhookSecret, hpc, loc, resp, events, reviews, issues, prHead, prCache, filesCache,
                 errorLog, inbox, findings, threshold, settingsVars, keyVars, analysisVars, cacheVars>>

\* After the loop: the counts and the UPDATE to completed, in the transaction.
TxUpdateCompleted(r) ==
  /\ LoopFree
  /\ rpc[r] = "insert"
  /\ Len(tx.issues) = Len(rloc[r].result)
  /\ \/ /\ tx' = [tx EXCEPT !.update = <<CompletedRow(reviews[r], rloc[r].summary, rloc[r].result)>>]
        /\ rpc' = [rpc EXCEPT ![r] = "tx_commit"]
        /\ UNCHANGED rloc
     \/ /\ Abort(r)
        /\ UNCHANGED tx
  /\ UNCHANGED <<webhookSecret, hpc, loc, resp, events, reviews, issues, prHead, prCache, filesCache,
                 errorLog, inbox, findings, threshold, settingsVars, keyVars, analysisVars, cacheVars>>

\* COMMIT: the writes of the transaction become visible together.
TxCommit(r) ==
  /\ LoopFree
  /\ rpc[r] = "tx_commit"
  /\ \/ /\ issues' = [issues EXCEPT ![r] = @ \o tx.issues]
        /\ reviews' = UpdateRow(reviews, r, tx.update[1])
        /\ tx' = [tx EXCEPT !.state = "committed"]
        /\ rpc' = [rpc EXCEPT ![r] = "done"]
        /\ rloc' = [rloc EXCEPT ![r] = NoRLoc]
     \/ /\ Abort(r)
        /\ UNCHANGED <<reviews, issues, tx>>
  /\ UNCHANGED <<webhookSecret, hpc, loc, resp, events, prHead, prCache, filesCache,
                 errorLog, inbox, findings, threshold, settingsVars, keyVars, analysisVars, cacheVars>>

\* catch: ROLLBACK discards the writes, then the error is rethrown.
TxRollback(r) ==
  /\ LoopFree
  /\ rpc[r] = "rollback"
  /\ tx' = [tx EXCEPT !.state = "rolledback"]
  /\ rpc' = [rpc EXCEPT ![r] = "catch"]
  /\ UNCHANGED <<webhookSecret, hpc, loc, resp, events, reviews, issues, rloc, prHead, prCache, filesCache,
                 errorLog, inbox, findings, threshold, settingsVars, keyVars, analysisVars, cacheVars>>

NextPersist ==
  \E r \in Callers :
    \/ RunAnalyzeFindings(r)
    \/ TxBegin(r)
    \/ TxInsertIssue(r)
    \/ TxUpdateCompleted(r)
    \/ TxCommit(r)
    \/ TxRollback(r)
    \/ RunCatch(r)

SpecPersist == InitPersist /\ [][NextPersist]_vars

\* ============================================================= settings
\* The state of the orchestration while no request is in flight.
OrchIdle ==
  /\ webhookSecret = TRUE
  /\ hpc = [c \in Callers |-> "idle"]
  /\ loc = [c \in Callers |-> NoLoc]
  /\ resp = [c \in Callers |-> 0]
  /\ events = << >>
  /\ reviews = << >>
  /\ issues = [c \in Callers |-> << >>]
  /\ rpc = [c \in Callers |-> "none"]
  /\ rloc = [c \in Callers |-> NoRLoc]
  /\ prHead = Shas[1]
  /\ prCache = "none"
  /\ filesCache = "none"
  /\ errorLog = {}
  /\ inbox = NoRequest

MaxRows == 3

SettingsUsers == {"u1"}

SettingsRepos == {"r1"}

\* The bodies of the settings requests.
Partials ==
  {EmptyBlob,
   [EmptyBlob EXCEPT !.severityThreshold = "warning"],
   [EmptyBlob EXCEPT !.severityThreshold = "critical"],
   [EmptyBlob EXCEPT !.enabledCategories = "security"]}

\* { ...a, ...b }
Spread(a, b) == [k \in DOMAIN a |-> IF b[k] # "absent" THEN b[k] ELSE a[k]]

\* The rows the WHERE clause of getSetting selects; a null scope is matched
\* with IS NULL.
Matching(rows, userId, repositoryId, key) ==
  {i \in DOMAIN rows : /\ rows[i].user_id = userId
                       /\ rows[i].repository_id = repositoryId
                       /\ rows[i].setting_key = key}

\* getSetting: result.rows[0] of a SELECT without ORDER BY is any of the
\* selected rows; << >> is null.
getSetting(rows, userId, repositoryId, key) ==
  IF (userId = "null" /\ repositoryId = "null") \/ Matching(rows, userId, repositoryId, key) = {}
  THEN {<< >>}
  ELSE {<<rows[i].setting_value>> : i \in Matching(rows, userId, repositoryId, key)}

\* INSERT ... ON CONFLICT (user_id, repository_id, setting_key) DO UPDATE:
\* the unique index treats a NULL as distinct from every value, so only a
\* row with both scopes set can conflict.
setSetting(rows, userId, repositoryId, key, value) ==
  LET conflicts == IF userId = "null" \/ repositoryId = "null" THEN {}
                   ELSE Matching(rows, userId, repositoryId, key)
  IN IF conflicts = {}
     THEN Append(rows, [user_id |-> userId, repository_id |-> repositoryId,
                        setting_key |-> key, setting_value |-> value])
     ELSE [i \in DOMAIN rows |->
             IF i \in conflicts THEN [rows[i] EXCEPT !.setting_value = value] ELSE rows[i]]

\* if (setting) settings = { ...settings, ...setting.settingValue }
Layer(s, found) == IF found = << >> THEN s ELSE Spread(s, found[1])

\* getSettings: what it can return.
getSettings(rows, userId, repositoryId) ==
  {IF repositoryId = "null"
   THEN Layer(DEFAULT_REVIEW_SETTINGS, us)
   ELSE Layer(Layer(Layer(DEFAULT_REVIEW_SETTINGS, us), rs), urs) :
     us \in getSetting(rows, userId, "null", "review"),
     rs \in getSetting(rows, "null", repositoryId, "review"),
     urs \in getSetting(rows, userId, repositoryId, "review")}

InitSettings ==
  /\ OrchIdle
  /\ PersistIdle
  /\ SettingsIdle
  /\ KeyIdle
  /\ CacheIdle
  /\ AnalysisIdle

\* GET /api/settings and GET /api/settings/repository/:repositoryId
GetSettings(userId, repositoryId) ==
  /\ \E res \in getSettings(settings, userId, repositoryId) :
       lastOp' = [op |-> "getSettings", user |-> userId, repo |-> repositoryId,
                  partial |-> EmptyBlob, result |-> res]
  /\ UNCHANGED <<orchVars, persistVars, settings, keyVars, analysisVars, cacheVars>>

updateUserSettings(userId, partial) ==
  /\ \E current \in getSettings(settings, userId, "null") :
       LET merged == Spread(current, partial)
       IN /\ Len(settings) < MaxRows
          /\ settings' = setSetting(settings, userId, "null", "review", merged)
          /\ lastOp' = [op |-> "updateUserSettings", user |-> userId, repo |-> "null",
                        partial |-> partial, result |-> merged]
  /\ UNCHANGED <<orchVars, persistVars, keyVars, analysisVars, cacheVars>>

updateRepositorySettings(repositoryId, partial) ==
  /\ \E existingSetting \in getSetting(settings, "null", repositoryId, "review") :
       LET current == IF existingSetting = << >> THEN DEFAULT_REVIEW_SETTINGS
                      ELSE existingSetting[1]
           merged == Spread(current, partial)
       IN /\ Len(settings) < MaxRows
          /\ settings' = setSetting(settings, "null", repositoryId, "review", merged)
          /\ lastOp' = [op |-> "updateRepositorySettings", user |-> "null",
                        repo |-> repositoryId, partial |-> partial, result |-> merged]
  /\ UNCHANGED <<orchVars, persistVars, keyVars, analysisVars, cacheVars>>

\* A direct call of the exported setSetting, for any scope the CHECK of the
\* table admits.
SetSetting(userId, repositoryId, value) ==
  /\ userId # "null" \/ repositoryId # "null"
  /\ Len(setSetting(settings, userId, repositoryId, "review", value)) <= MaxRows
  /\ settings' = setSetting(settings, userId, repositoryId, "review", value)
  /\ lastOp' = [op |-> "setSetting", user |-> userId, repo |-> repositoryId,
                partial |-> value, result |-> value]
  /\ UNCHANGED <<orchVars, persistVars, keyVars, analysisVars, cacheVars>>

NextSettings ==
  \/ \E u \in SettingsUsers : \E r \in SettingsRepos \cup {"null"} : GetSettings(u, r)
  \/ \E u \in SettingsUsers : \E p \in Partials : updateUserSettings(u, p)
  \/ \E r \in SettingsRepos : \E p \in Partials : updateRepositorySettings(r, p)
  \/ \E u \in SettingsUsers \cup {"null"} : \E r \in SettingsRepos \cup {"null"} :
       \E v \in Partials : SetSetting(u, r, v)

SpecSettings == InitSettings /\ [][NextSettings]_vars

\* ==================================================== analysis cache key
\* request.files and request.settings of the two analyzeCode calls.
FileLists == {<<FileA>>, <<FileB>>, <<FileA, FileB>>, <<FileB, FileA>>, <<FileAa>>, <<FileBB>>}

EffectiveSettings ==
  [enabledCategories : {"all"},
   severityThreshold : Severities,
   ignoredFiles : {"lockfiles", "lockfiles,b.ts"},
   ignoredPatterns : {"tests"},
   languageSettings : {"profiles"}]

AnalysisRequests == [files : FileLists, settings : EffectiveSettings]

InitKey ==
  /\ OrchIdle
  /\ PersistIdle
  /\ SettingsIdle
  /\ request \in [1..2 -> AnalysisRequests]
  /\ cacheKey = [i \in 1..2 |-> << >>]
  /\ CacheIdle
  /\ AnalysisIdle

\* analyzeCode up to its cache lookup: no key when no file is left.
ComputeKey(i) ==
  /\ cacheKey[i] = << >>
  /\ filterFiles(request[i].files, request[i].settings) # << >>
  /\ cacheKey' = [cacheKey EXCEPT ![i] = analysisCacheKey(request[i])]
  /\ UNCHANGED <<orchVars, persistVars, settingsVars, analysisVars, request, cacheVars>>

NextKey == \E i \in 1..2 : ComputeKey(i)

SpecKey == InitKey /\ [][NextKey]_vars

\* ================================================================ cache
MaxNow == 3

\* The AI responses of an analysis, by the severities of their issues.
AnalysisResponses == {<< >>, <<"warning", "info">>}

\* The pull request data the GitHub service caches.
PrValue == <<"pr">>

\* JSON.stringify / JSON.parse of a cached value.
JSONvalue(v) == <<"[">> \o v \o <<"]">>

JSONparse(text) == SubSeq(text, 2, Len(text) - 1)

\* if (redisEnabled && redisClient)
UsesRedis == redisEnabled /\ redisClient = "client"

\* The primary backend cannot be reached: never connected, or not answering.
Unreachable == redisClient # "client" \/ ~redisUp

\* entry.expiry && entry.expiry < Date.now() is false
MemoryLive(e) == e.present /\ ~(e.expiry # 0 /\ e.expiry < now)

\* Redis drops a key when its TTL has run out.
RedisLive(e) == e.present /\ (e.expiry = 0 \/ now < e.expiry)
\* The operation without its catch clause.
CacheCatchRethrow(o) == o

\* catch (error) { logger.debug(...); return null }
CacheCatch(o) == IF o.threw THEN [ret |-> << >>, threw |-> FALSE] ELSE o

\* The try block of cache.get.
getResult(k) ==
  IF UsesRedis
  THEN IF ~redisUp THEN [ret |-> << >>, threw |-> TRUE]
       ELSE IF RedisLive(redisData[k])
            THEN [ret |-> JSONparse(redisData[k].value), threw |-> FALSE]
            ELSE [ret |-> << >>, threw |-> FALSE]
  ELSE IF MemoryLive(memoryCache[k])
       THEN [ret |-> JSONparse(memoryCache[k].value), threw |-> FALSE]
       ELSE [ret |-> << >>, threw |-> FALSE]

\* cache.get(k)
DoGet(k) ==
  /\ memoryCache' = IF ~UsesRedis /\ memoryCache[k].present /\ ~MemoryLive(memoryCache[k])
                    THEN [memoryCache EXCEPT ![k] = NoEntry]
                    ELSE memoryCache
  /\ cacheOut' = [op |-> "get", key |-> k, value |-> << >>, until |-> 0,
                  down |-> Unreachable,
                  ret |-> CacheCatch(getResult(k)).ret,
                  threw |-> CacheCatch(getResult(k)).threw]
  /\ UNCHANGED redisData

\* cache.set(k, v, ttl): ttl 0 stands for no ttlSeconds, 1 for one step of the
\* clock.
DoSet(k, v, ttl) ==
  LET entry == [present |-> TRUE, value |-> JSONvalue(v),
                expiry |-> IF ttl # 0 THEN now + ttl ELSE 0]
  IN /\ redisData' = IF UsesRedis /\ redisUp THEN [redisData EXCEPT ![k] = entry]
                     ELSE redisData
     /\ memoryCache' = IF ~UsesRedis THEN [memoryCache EXCEPT ![k] = entry]
                       ELSE memoryCache
     /\ cacheOut' = [op |-> "set", key |-> k, value |-> v,
                     until |-> IF ttl # 0 THEN now + ttl ELSE 0,
                     down |-> Unreachable, ret |-> << >>,
                     threw |-> CacheCatch([ret |-> << >>, threw |-> UsesRedis /\ ~redisUp]).threw]

InitCache ==
  /\ OrchIdle
  /\ PersistIdle
  /\ SettingsIdle
  /\ KeyIdle
  /\ CacheIdle
  /\ AnalysisIdle

\* connectRedis, awaited before the server listens: no URL configured, the
\* connection made, or the connection failed.
connectRedis ==
  /\ ~booted
  /\ booted' = TRUE
  /\ \/ redisEnabled' = FALSE /\ redisClient' = "unset"
     \/ redisUp /\ redisEnabled' = TRUE /\ redisClient' = "client"
     \/ ~redisUp /\ redisEnabled' = FALSE /\ redisClient' = "nulled"
  /\ UNCHANGED <<orchVars, persistVars, settingsVars, keyVars, analysisVars,
                 redisUp, redisData, memoryCache, now, cacheOut, an>>

\* redisClient.on('error'): the Redis instance, also one whose variable was
\* set to null, reports that the server does not answer.
OnError ==
  /\ booted /\ redisClient # "unset" /\ ~redisUp
  /\ redisEnabled' = FALSE
  /\ UNCHANGED <<orchVars, persistVars, settingsVars, keyVars, analysisVars,
                 redisClient, redisUp, booted, redisData, memoryCache, now, cacheOut, an>>

\* redisClient.on('connect'): the instance has connected again.
OnConnect ==
  /\ booted /\ redisClient # "unset" /\ redisUp
  /\ redisEnabled' = TRUE
  /\ UNCHANGED <<orchVars, persistVars, settingsVars, keyVars, analysisVars,
                 redisClient, redisUp, booted, redisData, memoryCache, now, cacheOut, an>>

\* The Redis server stops or starts answering.
RedisToggle ==
  /\ redisUp' = ~redisUp
  /\ UNCHANGED <<orchVars, persistVars, settingsVars, keyVars, analysisVars,
                 redisEnabled, redisClient, booted, redisData, memoryCache, now, cacheOut, an>>

Tick ==
  /\ now < MaxNow
  /\ now' = now + 1
  /\ UNCHANGED <<orchVars, persistVars, settingsVars, keyVars, analysisVars,
                 redisEnabled, redisClient, redisUp, booted, redisData, memoryCache, cacheOut, an>>

\* The setInterval sweep of memoryCache.
Sweep ==
  /\ memoryCache' = [k \in DOMAIN memoryCache |->
                       IF memoryCache[k].expiry # 0 /\ memoryCache[k].expiry < now
                       THEN NoEntry ELSE memoryCache[k]]
  /\ UNCHANGED <<orchVars, persistVars, settingsVars, keyVars, analysisVars,
                 redisEnabled, redisClient, redisUp, booted, redisData, now, cacheOut, an>>

CacheGet(k) ==
  /\ booted
  /\ DoGet(k)
  /\ UNCHANGED <<orchVars, persistVars, settingsVars, keyVars, analysisVars,
                 redisEnabled, redisClient, redisUp, booted, now, an>>

CacheSet(k, v, ttl) ==
  /\ booted
  /\ DoSet(k, v, ttl)
  /\ UNCHANGED <<orchVars, persistVars, settingsVars, keyVars, analysisVars,
                 redisEnabled, redisClient, redisUp, booted, now, an>>

\* The keys a del or a delPattern removes from a store.
Without(store, keys) == [k \in DOMAIN store |-> IF k \in keys THEN NoEntry ELSE store[k]]

\* One cache call that deletes `keys`: from Redis, or from memoryCache.
DoDelete(op, keys) ==
  /\ redisData' = IF UsesRedis /\ redisUp THEN Without(redisData, keys) ELSE redisData
  /\ memoryCache' = IF ~UsesRedis THEN Without(memoryCache, keys) ELSE memoryCache
  /\ cacheOut' = [op |-> op, key |-> << >>, value |-> << >>, until |-> 0,
                  down |-> Unreachable, ret |-> << >>,
                  threw |-> CacheCatch([ret |-> << >>, threw |-> UsesRedis /\ ~redisUp]).threw]

CacheDel(k) ==
  /\ booted
  /\ DoDelete("del", {k})
  /\ UNCHANGED <<orchVars, persistVars, settingsVars, keyVars, analysisVars,
                 redisEnabled, redisClient, redisUp, booted, now, an>>

Patterns == {<<"analysis", ":", "*">>, <<"github", ":", "*">>}

\* redis.keys(pattern): the glob matches the whole key; the pattern ends in *.
GlobMatch(pattern, key) ==
  LET prefix == SubSeq(pattern, 1, Len(pattern) - 1)
  IN Len(key) >= Len(prefix) /\ SubSeq(key, 1, Len(prefix)) = prefix

\* new RegExp(pattern.replace(/\*/g, '.*')).test(key): a match anywhere.
RegexTest(pattern, key) ==
  LET prefix == SubSeq(pattern, 1, Len(pattern) - 1)
  IN \E i \in 1..(Len(key) - Len(prefix) + 1) : SubSeq(key, i, i + Len(prefix) - 1) = prefix

CacheDelPattern(pattern) ==
  /\ booted
  /\ DoDelete("delPattern",
              IF UsesRedis THEN {k \in CacheKeys : GlobMatch(pattern, k)}
              ELSE {k \in CacheKeys : RegexTest(pattern, k)})
  /\ UNCHANGED <<orchVars, persistVars, settingsVars, keyVars, analysisVars,
                 redisEnabled, redisClient, redisUp, booted, now, an>>

\* analyzeCode is called with files that pass the filter.
AnalyzeStart ==
  /\ booted
  /\ an.pc = "idle"
  /\ an' = [NoAnalysis EXCEPT !.pc = "get", !.degraded = TRUE]
  /\ UNCHANGED <<orchVars, persistVars, settingsVars, keyVars, analysisVars,
                 redisEnabled, redisClient, redisUp, booted, redisData, memoryCache, now, cacheOut>>

\* const cached = await cache.get(cacheKey); if (cached) return cached
AnalyzeGet ==
  /\ an.pc = "get"
  /\ DoGet(AnalysisKey)
  /\ an' = IF cacheOut'.threw
           THEN [an EXCEPT !.pc = "failed", !.error = "Error"]
           ELSE IF cacheOut'.ret # << >>
           THEN [an EXCEPT !.pc = "done", !.result = cacheOut'.ret,
                           !.degraded = an.degraded /\ UsesRedis /\ ~redisUp]
           ELSE [an EXCEPT !.pc = "ai", !.degraded = an.degraded /\ UsesRedis /\ ~redisUp]
  /\ UNCHANGED <<orchVars, persistVars, settingsVars, keyVars, analysisVars,
                 redisEnabled, redisClient, redisUp, booted, now>>

\* The AI call, the parse and the severity filter, or a throw of the call.
AnalyzeAI ==
  /\ an.pc = "ai"
  /\ \/ \E f \in AnalysisResponses :
          an' = [an EXCEPT !.pc = "set", !.findings = f,
                           !.result = <<"summary">> \o
                             filterIssuesBySeverity(f, DEFAULT_REVIEW_SETTINGS.severityThreshold)]
     \/ an' = [an EXCEPT !.pc = "failed", !.error = "Failed to analyze code"]
  /\ UNCHANGED <<orchVars, persistVars, settingsVars, keyVars, analysisVars,
                 redisEnabled, redisClient, redisUp, booted, redisData, memoryCache, now, cacheOut>>

\* await cache.set(cacheKey, result, CACHE_TTL.REVIEW_RESULT); return result
AnalyzeSet ==
  /\ an.pc = "set"
  /\ DoSet(AnalysisKey, an.result, 1)
  /\ an' = IF cacheOut'.threw
           THEN [an EXCEPT !.pc = "failed", !.error = "Failed to analyze code"]
           ELSE [an EXCEPT !.pc = "done", !.degraded = an.degraded /\ UsesRedis /\ ~redisUp]
  /\ UNCHANGED <<orchVars, persistVars, settingsVars, keyVars, analysisVars,
                 redisEnabled, redisClient, redisUp, booted, now>>

\* The caller takes the result or the error.
AnalyzeReturn ==
  /\ an.pc \in {"done", "failed"}
  /\ an' = NoAnalysis
  /\ UNCHANGED <<orchVars, persistVars, settingsVars, keyVars, analysisVars,
                 redisEnabled, redisClient, redisUp, booted, redisData, memoryCache, now, cacheOut>>

NextCache ==
  \/ connectRedis
  \/ OnError
  \/ OnConnect
  \/ RedisToggle
  \/ Tick
  \/ Sweep
  \/ \E k \in CacheKeys : CacheGet(k)
  \/ CacheSet(PrKey, PrValue, 0)
  \/ \E k \in CacheKeys : CacheDel(k)
  \/ \E p \in Patterns : CacheDelPattern(p)
  \/ AnalyzeStart
  \/ AnalyzeGet
  \/ AnalyzeAI
  \/ AnalyzeSet
  \/ AnalyzeReturn

SpecCache == InitCache /\ [][NextCache]_vars

\* ======================================== the analysis of one review's files
NoFilesAfterFilters == "No files to analyze after applying filters"

\* The files the collaborator lists for the pull request; patch "none" is a
\* file without a patch.
GitHubFiles ==
  { [filename |-> "a.ts", status |-> "modified", patch |-> "+x"],
    [filename |-> "a.ts", status |-> "removed", patch |-> "-y"],
    [filename |-> "logo.png", status |-> "added", patch |-> "none"],
    [filename |-> "a.test.ts", status |-> "modified", patch |-> "+x"],
    [filename |-> "package-lock.json", status |-> "modified", patch |-> "+x"],
    [filename |-> "b.py", status |-> "added", patch |-> "+x"],
    [filename |-> "Main.java", status |-> "modified", patch |-> "big"],
    [filename |-> "a.ts", status |-> "modified", patch |-> "big"],
    [filename |-> "notes.md", status |-> "added", patch |-> "big"] }

PullRequestFiles ==
  {<<f>> : f \in GitHubFiles}
    \cup {<<f, g>> : f \in GitHubFiles, g \in {h \in GitHubFiles : h.filename \in {"a.ts", "b.py"}}}

\* What getSettings has resolved for the run.
RunSettings ==
  [enabledCategories : {"all"},
   severityThreshold : {"info", "warning"},
   ignoredFiles : {"lockfiles"},
   ignoredPatterns : {"tests", "tests,glob"},
   languageSettings : {"profiles", "profiles,python-off"}]

\* The text of the AI response: prose without a JSON object, a text whose
\* braces do not hold valid JSON, the object {}, an object whose issues are
\* not an array, and an object with a summary and an array of issues.
AiResponses ==
  { [kind |-> k, issues |-> << >>] : k \in {"prose", "invalid-json", "object", "issues-not-array"} }
    \cup { [kind |-> "json", issues |-> f] : f \in AiResults }

\* parseAnalysisResponse: the summary and the issues; isArray tells whether
\* the issues are an array.
parseAnalysisResponse(response) ==
  CASE response.kind = "prose" ->
         [summary |-> "Unable to parse AI response", issues |-> << >>, isArray |-> TRUE]
    [] response.kind = "invalid-json" ->
         [summary |-> "Failed to parse AI analysis", issues |-> << >>, isArray |-> TRUE]
    [] response.kind = "object" ->
         [summary |-> "No summary provided", issues |-> << >>, isArray |-> TRUE]
    [] response.kind = "issues-not-array" ->
         [summary |-> "ai summary", issues |-> << >>, isArray |-> FALSE]
    [] response.kind = "json" ->
         [summary |-> "ai summary", issues |-> response.issues, isArray |-> TRUE]

\* The task of review 1 has fetched the files of the pull request and
\* resolved its settings.
InitAnalysis ==
  /\ webhookSecret = TRUE
  /\ hpc = [c \in Callers |-> "idle"]
  /\ loc = [c \in Callers |-> NoLoc]
  /\ resp = [c \in Callers |-> 0]
  /\ events = << >>
  /\ reviews = InsertRow(<< >>, 1, [NewReview("r1", 42, Shas[1]) EXCEPT !.status = "in_progress"])
  /\ issues = [c \in Callers |-> << >>]
  /\ rpc = [c \in Callers |-> IF c = 1 THEN "prepare" ELSE "none"]
  /\ rloc = [c \in Callers |-> IF c = 1 THEN [NoRLoc EXCEPT !.filesSha = Shas[1]] ELSE NoRLoc]
  /\ prHead = Shas[1]
  /\ prCache = Shas[1]
  /\ filesCache = Shas[1]
  /\ errorLog = {}
  /\ inbox = NoRequest
  /\ PersistIdle
  /\ SettingsIdle
  /\ KeyIdle
  /\ CacheIdle
  /\ \E f \in PullRequestFiles : \E s \in RunSettings :
       work = [NoWork EXCEPT !.files = f, !.settings = s]

\* analysisFiles: the files that have a patch and are not removed, each with
\* its language.
RunPrepare(r) ==
  /\ LoopFree
  /\ rpc[r] = "prepare"
  /\ LET HasPatch(f) == f.patch # "none" /\ f.status # "removed"
         kept == SelectSeq(work.files, HasPatch)
         analysisFiles == [i \in DOMAIN kept |->
                             [filename |-> kept[i].filename, patch |-> kept[i].patch,
                              language |-> detectLanguage(kept[i].filename)]]
     IN /\ work' = [work EXCEPT !.analysisFiles = analysisFiles]
        /\ rpc' = [rpc EXCEPT ![r] = IF analysisFiles = << >> THEN "no_files" ELSE "filter"]
  /\ UNCHANGED <<webhookSecret, hpc, loc, resp, events, reviews, issues, rloc, prHead, prCache,
                 filesCache, errorLog, inbox, persistVars, settingsVars, keyVars, cacheVars>>

\* analyzeCode up to the AI call: filterFiles, the early return when no file
\* is left, the cache key and a cache miss.
AnalyzeFilter(r) ==
  /\ LoopFree
  /\ rpc[r] = "filter"
  /\ IF filterFilesThrows(work.analysisFiles, work.settings)
     THEN /\ Throw(r, "SyntaxError")
          /\ UNCHANGED work
     ELSE LET filteredFiles == filterFiles(work.analysisFiles, work.settings) IN
          IF filteredFiles = << >>
          THEN /\ rloc' = [rloc EXCEPT ![r].result = << >>, ![r].summary = NoFilesAfterFilters]
               /\ rpc' = [rpc EXCEPT ![r] = "commit"]
               /\ UNCHANGED work
          ELSE /\ work' = [work EXCEPT !.filtered = filteredFiles, !.keyInput = filteredFiles]
               /\ rpc' = [rpc EXCEPT ![r] = "ai"]
               /\ UNCHANGED rloc
  /\ UNCHANGED <<webhookSecret, hpc, loc, resp, events, reviews, issues, prHead, prCache,
                 filesCache, errorLog, inbox, persistVars, settingsVars, keyVars, cacheVars>>

\* The try block of analyzeCode: the AI call with the prompt of the filtered
\* files, parseAnalysisResponse and filterIssuesBySeverity; every throw
\* becomes AppError('Failed to analyze code').
AnalyzeRespond(r) ==
  /\ LoopFree
  /\ rpc[r] = "ai"
  /\ \/ /\ work' = [work EXCEPT !.aiCalled = TRUE, !.aiInput = work.filtered]
        /\ Throw(r, "Failed to analyze code")
     \/ \E response \in AiResponses :
          LET parsed == parseAnalysisResponse(response) IN
          /\ work' = [work EXCEPT !.aiCalled = TRUE, !.aiInput = work.filtered,
                                  !.response = response]
          /\ IF parsed.isArray
             THEN /\ rloc' = [rloc EXCEPT
                                ![r].result = filterIssuesBySeverity(parsed.issues,
                                                work.settings.severityThreshold),
                                ![r].summary = parsed.summary]
                  /\ rpc' = [rpc EXCEPT ![r] = "commit"]
             ELSE Throw(r, "Failed to analyze code")    \* issues.filter is not a function
  /\ UNCHANGED <<webhookSecret, hpc, loc, resp, events, reviews, issues, prHead, prCache,
                 filesCache, errorLog, inbox, persistVars, settingsVars, keyVars, cacheVars>>

NextAnalysis ==
  \E r \in Callers :
    \/ RunPrepare(r)
    \/ RunNoFiles(r)
    \/ AnalyzeFilter(r)
    \/ AnalyzeRespond(r)
    \/ RunCommit(r)
    \/ RunCatch(r)

SpecAnalysis == InitAnalysis /\ [][NextAnalysis]_vars

\* ------------------------------------------------------------ properties
StartTriple(c) == <<loc[c].repo, loc[c].number, loc[c].sha>>

InStart(c) == hpc[c] \in {"start_pr", "start_select", "start_insert"}

EventsOf(d) == {i \in DOMAIN events : events[i].id = d}

\* C1: in every reachable state at most one review row exists for each
\* (repository, prNumber, headSha).
Inv_C1_OneRowPerTriple ==
  \A r1 \in DOMAIN reviews : \A r2 \in DOMAIN reviews :
    TripleOf(reviews[r1]) = TripleOf(reviews[r2]) => r1 = r2

\* Two start calls raced on one triple: the second insert was rejected.
Wit_C1_RacedStarts ==
  \E c \in Callers : \E r \in DOMAIN reviews :
    /\ hpc[c] = "after_start" /\ loc[c].out = "DatabaseError"
    /\ TripleOf(reviews[r]) = StartTriple(c)

\* C2: every start call that has its triple ends successfully and returns
\* the id of the review row of that triple, also when another start call for
\* the same triple runs concurrently.
CE_C2_StartReturnsTheRow ==
  [][\A c \in Callers :
       (hpc[c] \in {"start_select", "start_insert"} /\ hpc'[c] = "after_start")
         => /\ loc'[c].out = "ok"
            /\ loc'[c].rid \in SelectByTriple(reviews', StartTriple(c))]_vars

\* C3: the status of a review never moves backwards and never leaves
\* completed or failed: each step keeps it or moves it forward along
\* pending, in_progress, completed | failed.
StatusOrder(st) ==
  CASE st = "pending" -> 0
    [] st = "in_progress" -> 1
    [] OTHER -> 2

Thm_C3_MonotonicStatus ==
  [][\A r \in DOMAIN reviews \cap DOMAIN reviews' :
       \/ reviews'[r].status = reviews[r].status
       \/ StatusOrder(reviews[r].status) < StatusOrder(reviews'[r].status)]_vars

\* A duplicate start returned a review that had already ended, and one of
\* its issues has been resolved.
Wit_C3_DuplicateOfEndedReview ==
  \E c \in Callers : \E r \in DOMAIN reviews :
    /\ c # r /\ hpc[c] = "after_start" /\ loc[c].out = "ok" /\ loc[c].rid = r
    /\ reviews[r].status = "completed"
    /\ \E i \in DOMAIN issues[r] : issues[r][i].is_resolved

\* C4: when the processReview task of a review has ended, the review is
\* completed or failed.
CE_C4_EndedRunIsTerminal ==
  \A r \in DOMAIN reviews : rpc[r] = "done" => reviews[r].status \in Terminal

\* C5: a delivery whose signature header is missing or differs from the
\* digest of its payload is answered 401, and nothing is stored or started.
CE_C5_BadSignatureIs401 ==
  [][(inbox.kind = "webhook" /\ inbox.signature # Digest(inbox.body))
       => /\ resp'[inbox.caller] = 401
          /\ UNCHANGED <<events, reviews, issues, rpc>>]_vars

\* C6: every delivery answered with the acknowledgement (so every delivery
\* that passed the signature check) has exactly one webhook_events row.
CE_C6_OneEventPerDelivery ==
  \A d \in Callers : resp[d] = 200 => Cardinality(EventsOf(d)) = 1

\* C7: a signed delivery enters createAndRunReview only if it is a
\* pull_request event with action opened, synchronize or reopened for a known
\* repository with auto-review on; every other signed delivery is answered
\* 200 at once, and no review row or run appears.
SpecQualifies(req) ==
  /\ req.event = "pull_request"
  /\ req.body.action \in {"opened", "synchronize", "reopened"}
  /\ \E repo \in Repositories : repo.githubId = req.body.repo /\ repo.autoReview

Thm_C9_TriggerFailureNotSurfaced ==
  [][\A d \in Callers :
       (loc[d].kind = "webhook" /\ hpc[d] \in {"after_start", "ack"} /\ loc[d].out # "ok")
         => /\ hpc'[d] # hpc[d] => d \in errorLog'
            /\ resp'[d] # resp[d] => resp'[d] = 200]_vars

\* The insert of a raced start was rejected, and the catch has logged it.
Wit_C9_RejectedInsertLogged ==
  \E d \in Callers :
    /\ hpc[d] = "ack" /\ loc[d].kind = "webhook" /\ loc[d].out = "DatabaseError"
    /\ d \in errorLog

\* C10: when the existence check of start finds a review of its triple, in
\* any status, start returns that row and no row, issue or run changes.
Thm_C10_ExistingReturnedUnchanged ==
  [][\A c \in Callers :
       (hpc[c] = "start_select" /\ hpc'[c] # hpc[c]
          /\ SelectByTriple(reviews, StartTriple(c)) # {})
         => /\ hpc'[c] = "after_start"
            /\ loc'[c].out = "ok"
            /\ loc'[c].rid \in SelectByTriple(reviews, StartTriple(c))
            /\ UNCHANGED <<reviews, issues, rpc, rloc>>]_vars

\* A start returned an existing failed review, which stays failed with its
\* run ended.
Wit_C10_FailedReviewReturned ==
  \E c \in Callers : \E r \in DOMAIN reviews :
    /\ c # r /\ hpc[c] = "after_start" /\ loc[c].out = "ok" /\ loc[c].rid = r
    /\ reviews[r].status = "failed" /\ rpc[r] = "done"

\* C11: whenever a step of processReview has thrown, the task ends with the
\* review failed, its error_message the message of the exception, its
\* processing time recorded and no issue stored for it.
CE_C11_ThrowEndsFailed ==
  [][\A r \in Callers :
       (rpc[r] = "catch" /\ rpc'[r] = "done" /\ r \in DOMAIN reviews)
         => /\ r \in DOMAIN reviews'
            /\ reviews'[r].status = "failed"
            /\ reviews'[r].error_message = rloc[r].err
            /\ reviews'[r].processing_time_set
            /\ issues'[r] = << >>]_vars

\* C12: a review that is not completed shows no issue, a completed one shows
\* every issue its transaction wrote; when a statement of the transaction
\* has failed and the commit has returned its failure, no issue is visible
\* and the review is still in_progress.
Inv_C12_AllOrNothing ==
  \A r \in DOMAIN reviews :
    /\ reviews[r].status # "completed" => issues[r] = << >>
    /\ reviews[r].status = "completed"
         => tx.state = "committed" /\ issues[r] = tx.issues
    /\ (rpc[r] = "catch" /\ tx.state = "rolledback")
         => issues[r] = << >> /\ reviews[r].status = "in_progress"

\* The insert of the third of five issues failed and the transaction was
\* rolled back.
Wit_C12_ThirdOfFiveFailed ==
  \E r \in DOMAIN reviews :
    /\ rpc[r] = "catch" /\ tx.state = "rolledback"
    /\ Len(rloc[r].result) = 5 /\ Len(tx.issues) = 2
    /\ issues[r] = << >> /\ reviews[r].status = "in_progress"

\* C13: the total of a completed review is the number of its issue rows and
\* the sum of its three counts, and each count is the number of its issue
\* rows of that severity.
RowsOfSeverity(rows, sev) == LET Is(row) == row.severity = sev IN Len(SelectSeq(rows, Is))

Inv_C13_CountsMatchRows ==
  \A r \in DOMAIN reviews :
    reviews[r].status = "completed" =>
      /\ reviews[r].total_issues = Len(issues[r])
      /\ reviews[r].total_issues
           = reviews[r].critical_count + reviews[r].warning_count + reviews[r].info_count
      /\ reviews[r].critical_count = RowsOfSeverity(issues[r], "critical")
      /\ reviews[r].warning_count = RowsOfSeverity(issues[r], "warning")
      /\ reviews[r].info_count = RowsOfSeverity(issues[r], "info")

\* A review completed with issues of all three severities.
Wit_C13_MixedCounts ==
  \E r \in DOMAIN reviews :
    /\ reviews[r].status = "completed" /\ Len(issues[r]) = 5
    /\ reviews[r].critical_count = 2 /\ reviews[r].warning_count = 1
    /\ reviews[r].info_count = 2

\* C14: the issues stored for a completed review are the findings of the AI
\* response whose severity is at or above the threshold, critical above
\* warning above info, in the order of the response.
SeverityRank(sev) ==
  CASE sev = "critical" -> 3
    [] sev = "warning" -> 2
    [] sev = "info" -> 1

RECURSIVE AtOrAbove(_, _)
AtOrAbove(list, th) ==
  IF list = << >> THEN << >>
  ELSE (IF SeverityRank(Head(list)) >= SeverityRank(th) THEN <<Head(list)>> ELSE << >>)
         \o AtOrAbove(Tail(list), th)

Inv_C14_PersistedAtOrAboveThreshold ==
  \A r \in DOMAIN reviews :
    reviews[r].status = "completed" =>
      [i \in DOMAIN issues[r] |-> issues[r][i].severity] = AtOrAbove(findings, threshold)

\* The response [critical, warning, info] under threshold warning was stored
\* as [critical, warning].
Wit_C14_WarningThreshold ==
  \E r \in DOMAIN reviews :
    /\ findings = <<"critical", "warning", "info">> /\ threshold = "warning"
    /\ reviews[r].status = "completed"
    /\ [i \in DOMAIN issues[r] |-> issues[r][i].severity] = <<"critical", "warning">>

\* The blob of a scope is the value last upserted for it: the value of the
\* newest row of the scope, << >> when the scope has no row.
ScopeBlob(rows, userId, repositoryId) ==
  LET of == Matching(rows, userId, repositoryId, "review")
  IN IF userId = "null" /\ repositoryId = "null" THEN << >>
     ELSE IF of = {} THEN << >>
     ELSE <<rows[CHOOSE i \in of : \A j \in of : j <= i].setting_value>>

Has(blob, k) == blob # << >> /\ blob[1][k] # "absent"

\* For each key the value of the highest-precedence present layer that has
\* the key, else the default.
SpecResolve(rows, userId, repositoryId) ==
  LET ub == ScopeBlob(rows, userId, "null")
      rb == ScopeBlob(rows, "null", repositoryId)
      urb == ScopeBlob(rows, userId, repositoryId)
  IN [k \in DOMAIN DEFAULT_REVIEW_SETTINGS |->
        IF Has(urb, k) THEN urb[1][k]
        ELSE IF Has(rb, k) THEN rb[1][k]
        ELSE IF Has(ub, k) THEN ub[1][k]
        ELSE DEFAULT_REVIEW_SETTINGS[k]]

\* C15: getSettings(userId, repositoryId) returns the defaults overlaid, key
\* by key, with the user blob, then the repository blob, then the
\* user+repository blob; a scope without a row is skipped.
CE_C15_ResolveIsLayeredMerge ==
  lastOp.op = "getSettings"
    => lastOp.result = SpecResolve(settings, lastOp.user, lastOp.repo)

\* The values getSettings can return for a key.
ValuesOf(rows, userId, repositoryId, k) == {res[k] : res \in getSettings(rows, userId, repositoryId)}

OneRowPerScope(rows) ==
  \A i \in DOMAIN rows : \A j \in DOMAIN rows :
    (/\ rows[i].user_id = rows[j].user_id
     /\ rows[i].repository_id = rows[j].repository_id
     /\ rows[i].setting_key = rows[j].setting_key) => i = j

\* C16: an update of the user's or of a repository's settings leaves, for
\* every key not in the request, the value getSettings returns unchanged,
\* for the user alone and for the user with the repository.  Stated for the
\* first update of a scope in a store without duplicate rows.
CE_C16_UpdateKeepsOtherKeys ==
  [][(/\ lastOp'.op \in {"updateUserSettings", "updateRepositorySettings"}
      /\ settings' # settings
      /\ OneRowPerScope(settings')
      /\ Matching(settings, lastOp'.user, lastOp'.repo, "review") = {})
       => \A k \in DOMAIN DEFAULT_REVIEW_SETTINGS :
            lastOp'.partial[k] = "absent" =>
              \A u \in SettingsUsers : \A r \in SettingsRepos :
                /\ ValuesOf(settings', u, "null", k) = ValuesOf(settings, u, "null", k)
                /\ ValuesOf(settings', u, r, k) = ValuesOf(settings, u, r, k)]_vars

\* C17: the settings table never holds two rows with the same user scope,
\* repository scope and key, a null scope included.
CE_C17_OneRowPerScopeAndKey == OneRowPerScope(settings)

\* C18: two analyses whose filtered files are the same (file name, patch)
\* pairs get the same cache key when their settings are equal and different
\* keys when their settings differ.
FilteredOf(i) == filterFiles(request[i].files, request[i].settings)

CE_C19_GetAfterSetFallsBack ==
  [][(/\ cacheOut.op = "set" /\ cacheOut.down
      /\ cacheOut'.op = "get" /\ cacheOut'.down
      /\ cacheOut'.key = cacheOut.key
      /\ cacheOut.until = 0 \/ now < cacheOut.until)
       => cacheOut'.ret = cacheOut.value]_vars

\* C20: no cache call throws to its caller, and an analyzeCode call whose
\* every cache call met a failing backend ends as it does on an empty cache:
\* with the filtered issues of its AI response, or with the failure of the
\* AI call.
Inv_C20_CacheNeverThrows ==
  /\ ~cacheOut.threw
  /\ (an.pc = "done" /\ an.degraded)
       => an.result = <<"summary">> \o
            AtOrAbove(an.findings, DEFAULT_REVIEW_SETTINGS.severityThreshold)
  /\ an.pc = "failed" => an.error = "Failed to analyze code"

\* An analysis whose get and set both met a Redis server that did not
\* answer has returned the issues of its AI response.
Wit_C20_DegradedAnalysisDone ==
  /\ an.pc = "done" /\ an.degraded /\ an.findings # << >>
  /\ cacheOut.op = "set" /\ cacheOut.down /\ redisClient = "client"

\* C22: start works on the head commit the pull request has at the
\* collaborator when start is called: a start that has read the pull request
\* goes on with the current head, so a head without a review gets a new
\* pending review and never the review of an older commit.
CE_C22_StartUsesCurrentHead ==
  [][\A c \in Callers :
       (hpc[c] = "start_pr" /\ hpc'[c] = "start_select") => loc'[c].sha = prHead]_vars

\* C24: every issue row belongs to an existing review, whatever the order of
\* a delete and the run of the review, and a deleted review does not come
\* back.
Thm_C24_IssuesHaveReview ==
  /\ [](\A r \in Callers : issues[r] # << >> => r \in DOMAIN reviews)
  /\ [][\A r \in Callers :
          (rpc[r] # "none" /\ r \notin DOMAIN reviews) => r \notin DOMAIN reviews']_vars

\* A review was deleted while its run held issues to store: the commit was
\* rejected and rolled back.
Wit_C24_DeletedBeforeCommit ==
  \E r \in Callers :
    /\ r \notin DOMAIN reviews /\ rpc[r] = "catch"
    /\ rloc[r].result # << >> /\ rloc[r].err = "DatabaseError"

\* C25: processReview is called at most once for a review row: a task starts
\* only for a row inserted in the same step, whatever the interleaving of
\* deliveries and requests for its triple.
Thm_C25_RunOncePerReview ==
  [][\A r \in Callers :
       (rpc'[r] = "in_progress" /\ rpc[r] # "in_progress")
         => /\ rpc[r] = "none"
            /\ r \notin DOMAIN reviews
            /\ r \in DOMAIN reviews']_vars

\* A second start for the triple of a review whose run has ended returned
\* that review and started nothing.
Wit_C25_DuplicateStartedNothing ==
  \E c \in Callers : \E r \in DOMAIN reviews :
    /\ c # r /\ hpc[c] = "after_start" /\ loc[c].out = "ok" /\ loc[c].rid = r
    /\ rpc[c] = "none" /\ rpc[r] = "done"

\* C28: the issues a run stores were computed from the files of the commit
\* recorded as the review's head_sha.
CE_C28_FilesOfRecordedHead ==
  [][\A r \in Callers :
       (rpc[r] = "commit" /\ rpc'[r] = "done" /\ r \in DOMAIN reviews' /\ issues'[r] # << >>)
         => rloc[r].filesSha = reviews'[r].head_sha]_vars

\* C30: when createAndRunReview has succeeded for a delivery, the
\* webhook_events row of that delivery is marked processed, and the row of a
\* delivery whose trigger failed is never marked.
CE_C30_OwnRowMarkedProcessed ==
  [][\A d \in Callers :
       (hpc[d] = "after_start" /\ loc[d].kind = "webhook" /\ hpc'[d] = "ack")
         => \A i \in EventsOf(d) : events'[i].processed = (loc[d].out = "ok")]_vars

\* C27: a get that follows a completed set of the same key, with no set, del
\* or expiry of the key in between, returns the value of that set or nothing,
\* never a value of an earlier set, however the availability of the Redis
\* server changes in between.
CE_C27_NoStaleValue ==
  [][(/\ cacheOut.op = "set" /\ cacheOut'.op = "get"
      /\ cacheOut'.key = cacheOut.key
      /\ cacheOut.until = 0 \/ now < cacheOut.until)
       => cacheOut'.ret \in {cacheOut.value, << >>}]_vars

\* C29: two analyzeCode requests whose filtered files differ never get the
\* same cache key.
CE_C29_KeySeparatesFiles ==
  (/\ cacheKey[1] # << >> /\ cacheKey[2] # << >>
   /\ FilteredOf(1) # FilteredOf(2)
   /\ request[1].settings = request[2].settings)
    => cacheKey[1] # cacheKey[2]

\* A file passes every filter of the settings: it is not named in the
\* ignored-file list, no ignored pattern matches its name, the profile of its
\* language, if any, is enabled, and its patch is not larger than the
\* profile's maximum, or than 100000 without a profile.
PassesEveryFilter(f, s) ==
  /\ f.filename \notin IgnoredFiles(s.ignoredFiles)
  /\ \A i \in DOMAIN IgnoredPatterns(s.ignoredPatterns) :
       ~RegExpTest(IgnoredPatterns(s.ignoredPatterns)[i], f.filename)
  /\ \/ f.language \notin DOMAIN LanguageSettings(s.languageSettings)
     \/ /\ LanguageSettings(s.languageSettings)[f.language].enabled
        /\ PatchLength(f.patch) <= LanguageSettings(s.languageSettings)[f.language].maxFileSize
  /\ f.language \notin DOMAIN LanguageSettings(s.languageSettings)
       => PatchLength(f.patch) <= 100000

\* No changed file of the pull request is analyzable.
NoAnalyzableFiles ==
  \A i \in DOMAIN work.files :
    \/ work.files[i].patch = "none"
    \/ work.files[i].status = "removed"
    \/ ~PassesEveryFilter([filename |-> work.files[i].filename, patch |-> work.files[i].patch,
                           language |-> detectLanguage(work.files[i].filename)],
                          work.settings)

\* C21: when no changed file is analyzable the AI is not called, no step of
\* the run but a database statement throws, and the run ends with the review
\* completed, without issues, with zero counts and with the fixed
\* no-analyzable-files summary.
CE_C21_NoFilesEndsCompleted ==
  /\ [](NoAnalyzableFiles => ~work.aiCalled)
  /\ [][(NoAnalyzableFiles /\ rpc[1] # "catch" /\ rpc'[1] = "catch")
          => rloc'[1].err = "DatabaseError"]_vars
  /\ [][(NoAnalyzableFiles /\ rpc[1] \in {"no_files", "commit"} /\ rpc'[1] = "done")
          => /\ reviews'[1].status = "completed"
             /\ reviews'[1].summary = NoFilesSummary
             /\ issues'[1] = << >>
             /\ reviews'[1].total_issues = 0
             /\ reviews'[1].critical_count = 0
             /\ reviews'[1].warning_count = 0
             /\ reviews'[1].info_count = 0]_vars

\* The AI response is malformed: no JSON object, invalid JSON, or an object
\* without a usable list of issues.
Malformed(response) ==
  response.kind \in {"prose", "invalid-json", "object", "issues-not-array"}

FallbackSummaries ==
  {"Unable to parse AI response", "Failed to parse AI analysis", "No summary provided",
   "ai summary"}

\* C23: a malformed AI response gives an analysis without issues and with a
\* fallback summary, and the review ends completed with zero issues.
CE_C23_MalformedDegrades ==
  /\ [][(rpc[1] = "ai" /\ rpc'[1] # "ai" /\ Malformed(work'.response))
          => /\ rpc'[1] = "commit"
             /\ rloc'[1].result = << >>
             /\ rloc'[1].summary \in FallbackSummaries]_vars
  /\ [][(rpc[1] = "commit" /\ rpc'[1] = "done" /\ Malformed(work.response))
          => /\ reviews'[1].status = "completed"
             /\ reviews'[1].total_issues = 0
             /\ issues'[1] = << >>]_vars

\* C26: every file of the prompt given to the AI, and every file hashed into
\* the cache key, is an analysis file of the run that passes every filter of
\* the effective settings.
Inv_C26_OnlyFilteredFilesAnalysed ==
  \A input \in {work.aiInput, work.keyInput} : \A i \in DOMAIN input :
    /\ \E j \in DOMAIN work.analysisFiles : work.analysisFiles[j] = input[i]
    /\ PassesEveryFilter(input[i], work.settings)

\* The AI was called with one of the two files of the run: the other did not
\* pass the filters.
Wit_C26_OneOfTwoFilesAnalysed ==
  /\ work.aiCalled
  /\ Len(work.analysisFiles) = 2 /\ Len(work.aiInput) = 1
  /\ work.keyInput = work.aiInput

====
